---- MODULE Spec2Model ----
(***************************************************************************)
(* CSV Loader (src/app.py): read_csv_robust's encoding / delimiter         *)
(* fallback chain, infer_types' date and numeric passes, the upload ->     *)
(* read -> infer -> render script around them, and the header-to-role     *)
(* Schema Normalizer described in spec.md section 4.5.                     *)
(***************************************************************************)
EXTENDS Integers, Sequences, FiniteSets, TLC

VARIABLES
    pc,            \* position of the script / of the function being run
    uploaded,      \* st.file_uploader's value: "None" or the file's bytes
    enc_i,         \* read_csv_robust: index of `enc` in `encodings`
    sep_i,         \* read_csv_robust: index of `sep` in the fallback list
    last_err,      \* read_csv_robust: last_err
    attempts,      \* read_csv_robust: decode / pd.read_csv calls made so far
    df,            \* the DataFrame read_csv_robust returned ("None" before)
    raised,        \* the exception read_csv_robust raised ("None" if none)
    ui,            \* the Streamlit calls made so far, in order
    out,           \* infer_types: out (the working copy of df)
    conversions,   \* infer_types: conversions
    todo,          \* infer_types: the columns the running for-loop has left
    df_typed,      \* the script's df_typed ("None" before infer_types returns)
    headers,       \* Schema Normalizer: the header row
    hdr_i,         \* Schema Normalizer: index of the next header to scan
    role_map,      \* Schema Normalizer: header index -> role, so far
    chart_capable  \* Schema Normalizer: the five-role signal ("pending" before)

vars == <<pc, uploaded, enc_i, sep_i, last_err, attempts, df, raised, ui,
          out, conversions, todo, df_typed, headers, hdr_i, role_map,
          chart_capable>>

readVars == <<enc_i, sep_i, last_err, attempts, df, raised>>
inferVars == <<out, conversions, todo, df_typed>>
schemaVars == <<headers, hdr_i, role_map, chart_capable>>

(***************************************************************************)
(* Bounds of the model                                                     *)
(***************************************************************************)
MaxBytes == 3      \* longest uploaded byte buffer
MaxRuns == 3       \* most runs of equal cells in one table (all columns)
MaxUploadRuns == 1 \* the same, for a table parsed in a whole-script run
MaxHeaders == 5    \* longest header row given to the Schema Normalizer

(***************************************************************************)
(* Sequence helpers                                                        *)
(***************************************************************************)
SeqsUpTo(S, n) == UNION {[1..k -> S] : k \in 0..n}

RECURSIVE SumSeq(_)
SumSeq(s) == IF s = <<>> THEN 0 ELSE Head(s) + SumSeq(Tail(s))

IsPrefixOf(p, s) == Len(p) <= Len(s) /\ SubSeq(s, 1, Len(p)) = p

Contains(s, p) ==
    \E i \in 1..(Len(s) - Len(p) + 1) : SubSeq(s, i, i + Len(p) - 1) = p

(***************************************************************************)
(* Bytes and codecs: content.decode(enc)                                   *)
(***************************************************************************)
\* 'A', and bytes that tell the four codecs apart: C3 A9 is UTF-8 for
\* U+00E9, A9 or 81 alone is invalid UTF-8, 81 is undefined in cp1252.
ByteAlphabet == {65, 195, 169, 129}

Contents == SeqsUpTo(ByteAlphabet, MaxBytes)

\* Python values are records tagged with their type.
None == [type |-> "None"]

Str(t) == [type |-> "str", text |-> t]

UnicodeDecodeError(enc) == [type |-> "UnicodeDecodeError", enc |-> enc]

IsStr(v) == v.type = "str"

IsContinuation(b) == b >= 128 /\ b <= 191

\* The strict UTF-8 decoder on one- and two-byte forms (the alphabet holds no
\* lead byte of a longer form): the code points, or "invalid".
RECURSIVE Utf8CodePoints(_)
Utf8CodePoints(b) ==
    IF b = <<>> THEN [valid |-> TRUE, cps |-> <<>>]
    ELSE IF b[1] < 128 THEN
        LET rest == Utf8CodePoints(Tail(b))
        IN  [valid |-> rest.valid, cps |-> <<b[1]>> \o rest.cps]
    ELSE IF b[1] >= 194 /\ b[1] <= 223 /\ Len(b) >= 2 /\ IsContinuation(b[2]) THEN
        LET rest == Utf8CodePoints(Tail(Tail(b)))
        IN  [valid |-> rest.valid,
             cps |-> <<(b[1] - 192) * 64 + (b[2] - 128)>> \o rest.cps]
    ELSE [valid |-> FALSE, cps |-> <<>>]

StripBOM(b) ==
    IF Len(b) >= 3 /\ SubSeq(b, 1, 3) = <<239, 187, 191>>
    THEN SubSeq(b, 4, Len(b)) ELSE b

\* The five bytes the cp1252 codec leaves undefined.
Cp1252Undefined == {129, 141, 143, 144, 157}

\* content.decode(enc): a str, or the UnicodeDecodeError it raises.  Bytes
\* A0..FF of cp1252 and every byte of latin-1 decode to the code point of the
\* same number.
DecodeUtf8(b, enc) ==
    LET r == Utf8CodePoints(b)
    IN  IF r.valid THEN Str(r.cps) ELSE UnicodeDecodeError(enc)

Decode(content, enc) ==
    CASE enc = "utf-8" -> DecodeUtf8(content, enc)
      [] enc = "utf-8-sig" -> DecodeUtf8(StripBOM(content), enc)
      [] enc = "cp1252" ->
            IF \E i \in 1..Len(content) : content[i] \in Cp1252Undefined
            THEN UnicodeDecodeError(enc) ELSE Str(content)
      [] enc = "latin-1" -> Str(content)

(***************************************************************************)
(* DataFrames.  A column's cells are kept run-length encoded: a run is a   *)
(* cell value and how many consecutive rows hold it.  Cell values are      *)
(* representative strings of each class the two passes tell apart.         *)
(***************************************************************************)
NaN == "NaN"                 \* a missing cell of an object column
DateCell == "2024-01-15"     \* matches the date shape, parses as a date
BadDateCell == "13/45/2024"  \* matches the date shape, is no date
IntCell == "1,234"           \* a whole number with a thousands separator
FracCell == "1,234.5"        \* a number with a fractional part
TextCell == "abc"            \* none of these
FloatCell == "1.5"           \* a value of a column pd.read_csv typed float64

Run(v, n) == [v |-> v, n |-> n]

\* The runs an object column is built from.
RunOptions ==
    {Run(NaN, n) : n \in {1, 500}}
    \cup {Run(DateCell, n) : n \in {1, 4, 250, 2000}}
    \cup {Run(BadDateCell, n) : n \in {1, 500}}
    \cup {Run(IntCell, n) : n \in {1, 4, 2000}}
    \cup {Run(FracCell, 1)}
    \cup {Run(TextCell, n) : n \in {1, 5, 250, 500}}

NRows(cells) == SumSeq([i \in 1..Len(cells) |-> cells[i].n])

Column(dtype, cells) == [dtype |-> dtype, cells |-> cells]

\* The columns of exactly k runs and L rows.
ColumnsOf(k, L) ==
    {Column("object", c) : c \in {x \in [1..k -> RunOptions] : NRows(x) = L}}
    \cup (IF k = 1 /\ L > 0
          THEN {Column("float64", <<Run(FloatCell, L)>>)} ELSE {})

\* The sequences of nc columns of L rows each, of at most b runs in all.
RECURSIVE ColumnSeqs(_, _, _)
ColumnSeqs(nc, b, L) ==
    IF nc = 0 THEN {<<>>}
    ELSE UNION {{<<c>> \o rest : c \in ColumnsOf(k, L),
                                 rest \in ColumnSeqs(nc - 1, b - k, L)}
                : k \in 1..(b - (nc - 1))}

DataFrame(columns) == [type |-> "DataFrame", columns |-> columns]

RowCounts(b) == {NRows(c) : c \in UNION {[1..k -> RunOptions] : k \in 1..b}}

\* The DataFrames of at least one column and at most b runs in all; a
\* table of no rows (a header line alone) has one or two columns.
Tables(b) ==
    {DataFrame([i \in 1..nc |-> Column("object", <<>>)]) : nc \in 1..2}
    \cup {DataFrame(cs) :
            cs \in UNION {ColumnSeqs(nc, b, L) : nc \in 1..b, L \in RowCounts(b)}}

\* The tables pd.read_csv returns in a run of the script.
ParsedTables == Tables(MaxUploadRuns)

ColName(i) == <<"a", "b", "c", "d", "e", "f">>[i]

(***************************************************************************)
(* read_csv_robust (src/app.py 9-49)                                       *)
(***************************************************************************)
\* Mutants of `encodings`: the BOM variant tried first; an entry repeated.
EncodingsBomFirst == <<"utf-8-sig", "utf-8", "cp1252", "latin-1">>

EncodingsRepeated == <<"utf-8", "utf-8-sig", "cp1252", "latin-1", "utf-8">>

encodings == <<"utf-8", "utf-8-sig", "cp1252", "latin-1">>

\* sep=None (auto-detect) of the first pd.read_csv call.
AutoSep == "None"

\* Mutant of FallbackSeps: the pipe is left out.
FallbackSepsNoPipe == <<",", ";", "\t">>

FallbackSeps == <<",", ";", "\t", "|">>

ParserError(enc, sep) == [type |-> "ParserError", enc |-> enc, sep |-> sep]

\* What pd.read_csv(StringIO(text), sep=sep, engine="python",
\* on_bad_lines="skip") can do: raise, or return a DataFrame.  It raises
\* (EmptyDataError) whenever it finds no columns, so every DataFrame it returns
\* has at least one; a header line alone gives a DataFrame of no rows.
ReadCsvOutcomes(text, enc, sep) ==
    IF text = <<>> THEN {ParserError(enc, sep)}
    ELSE {ParserError(enc, sep)} \cup ParsedTables

\* Mutant of RecordError: the first error is kept.
RecordFirstError(prev, e) == IF prev = None THEN e ELSE prev

\* Lines 19, 33, 46: last_err = e
RecordError(prev, e) == e

\* Mutant of Succeeded: a DataFrame of no rows counts as a failed attempt.
SucceededNonEmpty(r) ==
    r.type = "DataFrame" /\ NRows(r.columns[1].cells) > 0

\* Lines 25-31 and 38-44: the call did not raise, so its DataFrame is
\* returned, whatever it holds.
Succeeded(r) == r.type = "DataFrame"

DecodeAttempt(enc, ok) == [op |-> "decode", enc |-> enc, sep |-> "", ok |-> ok]

ParseAttempt(enc, sep, ok) == [op |-> "read_csv", enc |-> enc, sep |-> sep, ok |-> ok]

\* Lines 15-20: the next encoding's content.decode(enc); a decode error is
\* kept in last_err and the loop goes on to the next encoding.
DecodeStep ==
    /\ pc = "decode"
    /\ enc_i <= Len(encodings)
    /\ LET enc == encodings[enc_i]
           r == Decode(uploaded.value, enc)
       IN  IF IsStr(r)
           THEN /\ attempts' = Append(attempts, DecodeAttempt(enc, TRUE))
                /\ pc' = "auto"
                /\ UNCHANGED <<enc_i, last_err>>
           ELSE /\ attempts' = Append(attempts, DecodeAttempt(enc, FALSE))
                /\ last_err' = RecordError(last_err, r)
                /\ enc_i' = enc_i + 1
                /\ pc' = "decode"
    /\ UNCHANGED <<uploaded, sep_i, df, raised, ui, inferVars, schemaVars>>

\* Lines 22-33: the auto-detect parse; its result is returned as it is.
ParseAuto ==
    /\ pc = "auto"
    /\ LET enc == encodings[enc_i]
           text == Decode(uploaded.value, enc).text
       IN  \E r \in ReadCsvOutcomes(text, enc, AutoSep) :
             IF Succeeded(r)
             THEN /\ attempts' = Append(attempts, ParseAttempt(enc, AutoSep, TRUE))
                  /\ df' = r
                  /\ pc' = "returned"
                  /\ UNCHANGED <<last_err, sep_i>>
             ELSE /\ attempts' = Append(attempts,
                                      ParseAttempt(enc, AutoSep, r.type = "DataFrame"))
                  /\ last_err' = RecordError(last_err, r)
                  /\ sep_i' = 1
                  /\ pc' = "sep"
                  /\ UNCHANGED df
    /\ UNCHANGED <<uploaded, enc_i, raised, ui, inferVars, schemaVars>>

\* Lines 35-47: one pass of the fallback-delimiter loop; after the last
\* delimiter fails the encoding loop goes on.
ParseSep ==
    /\ pc = "sep"
    /\ LET enc == encodings[enc_i]
           sep == FallbackSeps[sep_i]
           text == Decode(uploaded.value, enc).text
       IN  \E r \in ReadCsvOutcomes(text, enc, sep) :
             IF Succeeded(r)
             THEN /\ attempts' = Append(attempts, ParseAttempt(enc, sep, TRUE))
                  /\ df' = r
                  /\ pc' = "returned"
                  /\ UNCHANGED <<last_err, sep_i, enc_i>>
             ELSE /\ attempts' = Append(attempts,
                                      ParseAttempt(enc, sep, r.type = "DataFrame"))
                  /\ last_err' = RecordError(last_err, r)
                  /\ UNCHANGED df
                  /\ IF sep_i < Len(FallbackSeps)
                     THEN /\ sep_i' = sep_i + 1
                          /\ pc' = "sep"
                          /\ UNCHANGED enc_i
                     ELSE /\ sep_i' = 0
                          /\ enc_i' = enc_i + 1
                          /\ pc' = "decode"
    /\ UNCHANGED <<uploaded, raised, ui, inferVars, schemaVars>>

RuntimeError(cause) ==
    [type |-> "RuntimeError",
     msg |-> <<"Failed to parse CSV. Last error: ", cause>>]

\* Line 49: every encoding is used up.
RaiseFailure ==
    /\ pc = "decode"
    /\ enc_i > Len(encodings)
    /\ raised' = RuntimeError(last_err)
    /\ pc' = "raised"
    /\ UNCHANGED <<uploaded, enc_i, sep_i, last_err, attempts, df, ui,
                   inferVars, schemaVars>>

(***************************************************************************)
(* infer_types (src/app.py 51-91)                                          *)
(***************************************************************************)
SampleSize == 500

DateShaped == {DateCell, BadDateCell}

NaT == "NaT"

NumNaN == "nan"

NA == "<NA>"

Missing == {NaN, NaT, NumNaN, NA}

\* Series.dropna()
DropNa(cells) == SelectSeq(cells, LAMBDA r : r.v \notin Missing)

\* Series.head(k)
RECURSIVE HeadRows(_, _)
HeadRows(cells, k) ==
    IF cells = <<>> \/ k <= 0 THEN <<>>
    ELSE IF cells[1].n >= k THEN <<Run(cells[1].v, k)>>
    ELSE <<cells[1]>> \o HeadRows(Tail(cells), k - cells[1].n)

\* The number of rows whose value is in S.
CountIn(cells, S) ==
    SumSeq([i \in 1..Len(cells) |-> IF cells[i].v \in S THEN cells[i].n ELSE 0])

\* Series.notna().sum()
CountNotNa(cells) ==
    SumSeq([i \in 1..Len(cells) |-> IF cells[i].v \in Missing THEN 0 ELSE cells[i].n])

\* Mutant of ObjectColumns: every column is selected.
AllColumns(t) == [i \in 1..Len(t.columns) |-> i]

\* out.select_dtypes(include=["object"]).columns
ObjectColumns(t) ==
    SelectSeq([i \in 1..Len(t.columns) |-> i],
              LAMBDA i : t.columns[i].dtype = "object")

\* Line 61: out[col].dropna().astype(str).head(500)
Sample(cells) == HeadRows(DropNa(cells), SampleSize)

\* Lines 64-67: sample.str.contains(<date shape>).mean() > 0.5
MaybeDate(sample) == 2 * CountIn(sample, DateShaped) > NRows(sample)

\* pd.to_datetime(v, errors="coerce") of one cell
ToDatetime(v) == IF v = DateCell THEN "Timestamp(2024-01-15)" ELSE NaT

\* Line 69
ParsedDates(cells) ==
    [i \in 1..Len(cells) |-> Run(ToDatetime(cells[i].v), cells[i].n)]

\* Mutant of DateRateOk: the threshold is strict.
DateRateStrict(parsed) ==
    NRows(parsed) > 0 /\ 10 * CountNotNa(parsed) > 8 * NRows(parsed)

\* Line 70: parsed.notna().mean() >= 0.8
DateRateOk(parsed) ==
    NRows(parsed) > 0 /\ 10 * CountNotNa(parsed) >= 8 * NRows(parsed)

\* Lines 78-80: astype(str), then "," and " " removed
CleanedCell(v) ==
    CASE v = NaN -> "nan"
      [] v = IntCell -> "1234"
      [] v = FracCell -> "1234.5"
      [] OTHER -> v

\* pd.to_numeric(v, errors="coerce") of one cleaned cell (float64)
ToNumeric(v) ==
    CASE v = "1234" -> "1234.0"
      [] v = "1234.5" -> "1234.5"
      [] v = FloatCell -> FloatCell
      [] OTHER -> NumNaN

\* Lines 76-82
Coerced(cells) ==
    [i \in 1..Len(cells) |-> Run(ToNumeric(CleanedCell(cells[i].v)), cells[i].n)]

\* Line 83: coerced.notna().mean() >= 0.8; the mean of an empty Series is
\* NaN, which no comparison accepts.
NumericRateOk(coerced) ==
    NRows(coerced) > 0 /\ 10 * CountNotNa(coerced) >= 8 * NRows(coerced)

\* Mutant of AllWhole: the cells that did not parse are checked too.
AllWholeOfColumn(coerced) ==
    \A i \in 1..Len(coerced) : coerced[i].v = "1234.0"

\* Line 84: (coerced.dropna() % 1 == 0).all()
AllWhole(coerced) ==
    LET kept == DropNa(coerced)
    IN  \A i \in 1..Len(kept) : kept[i].v = "1234.0"

\* Line 85: coerced.astype("Int64")
AsInt64(coerced) ==
    [i \in 1..Len(coerced) |->
        Run(CASE coerced[i].v = "1234.0" -> "1234" [] OTHER -> NA, coerced[i].n)]

Note(col, kind) == <<ColName(col), " -> ", kind>>

SetColumn(t, i, c) == [t EXCEPT !.columns[i] = c]

\* Lines 56-60: out = df.copy(), conversions = [], and the date pass's list
\* of object columns.  read_csv_robust's frame is gone by now.
InferStart ==
    /\ pc = "returned"
    /\ out' = df
    /\ conversions' = <<>>
    /\ todo' = ObjectColumns(df)
    /\ pc' = "date"
    /\ enc_i' = 0 /\ sep_i' = 0 /\ last_err' = None /\ attempts' = <<>>
    /\ UNCHANGED <<uploaded, df, raised, ui, df_typed, schemaVars>>

\* Lines 60-72: the date pass on its next column.
DateStep ==
    /\ pc = "date"
    /\ todo # <<>>
    /\ LET col == Head(todo)
           cells == out.columns[col].cells
           parsed == ParsedDates(cells)
       IN  IF NRows(Sample(cells)) > 0 /\ MaybeDate(Sample(cells))
              /\ DateRateOk(parsed)
           THEN /\ out' = SetColumn(out, col, Column("datetime64[ns]", parsed))
                /\ conversions' = Append(conversions, Note(col, "datetime"))
           ELSE UNCHANGED <<out, conversions>>
    /\ todo' = Tail(todo)
    /\ UNCHANGED <<pc, uploaded, readVars, ui, df_typed, schemaVars>>

\* Line 75: the date pass is over; the numeric pass lists the columns that
\* are object now.
NumericStart ==
    /\ pc = "date"
    /\ todo = <<>>
    /\ todo' = ObjectColumns(out)
    /\ pc' = "numeric"
    /\ UNCHANGED <<uploaded, readVars, ui, out, conversions, df_typed, schemaVars>>

\* Lines 75-89: the numeric pass on its next column.
NumericStep ==
    /\ pc = "numeric"
    /\ todo # <<>>
    /\ LET col == Head(todo)
           coerced == Coerced(out.columns[col].cells)
       IN  IF NumericRateOk(coerced)
           THEN IF AllWhole(coerced)
                THEN /\ out' = SetColumn(out, col, Column("Int64", AsInt64(coerced)))
                     /\ conversions' = Append(conversions, Note(col, "integer"))
                ELSE /\ out' = SetColumn(out, col, Column("float64", coerced))
                     /\ conversions' = Append(conversions, Note(col, "float"))
           ELSE UNCHANGED <<out, conversions>>
    /\ todo' = Tail(todo)
    /\ UNCHANGED <<pc, uploaded, readVars, ui, df_typed, schemaVars>>

\* Lines 91 and 108: return out, conversions.
InferReturn ==
    /\ pc = "numeric"
    /\ todo = <<>>
    /\ df_typed' = out
    /\ pc' = "render"
    /\ UNCHANGED <<uploaded, readVars, ui, out, conversions, todo, schemaVars>>

(***************************************************************************)
(* The script (src/app.py 93-147)                                          *)
(***************************************************************************)
NoUpload == [type |-> "None", value |-> <<>>]

UploadedFile(content) == [type |-> "UploadedFile", value |-> content]

UiCall(fn, arg) == [fn |-> fn, arg |-> arg]

\* Lines 95-97
UploadNone ==
    /\ pc = "upload"
    /\ uploaded = NoUpload
    /\ ui' = Append(ui, UiCall("info", <<"Upload a CSV to begin.">>))
    /\ pc' = "stopped"
    /\ UNCHANGED <<uploaded, readVars, inferVars, schemaVars>>

\* Lines 100-102 and 13-14: the spinner is shown and
\* read_csv_robust(uploaded.getvalue()) is entered.
CallRead ==
    /\ pc = "upload"
    /\ uploaded # NoUpload
    /\ enc_i' = 1
    /\ last_err' = None
    /\ attempts' = <<>>
    /\ ui' = Append(ui, UiCall("spinner", <<"Reading CSV...">>))
    /\ pc' = "decode"
    /\ UNCHANGED <<uploaded, sep_i, df, raised, inferVars, schemaVars>>

\* Mutant of ReadErrorMessage: the cause is left out.
ReadErrorMessageNoCause(e) == <<"Could not read CSV">>

\* Line 104: f"Could not read CSV: {e}"
ReadErrorMessage(e) == <<"Could not read CSV: ", e.msg>>

\* Lines 103-105: st.error(...); st.stop()
HandleReadError ==
    /\ pc = "raised"
    /\ ui' = Append(ui, UiCall("error", ReadErrorMessage(raised)))
    /\ pc' = "stopped"
    /\ UNCHANGED <<uploaded, readVars, inferVars, schemaVars>>

\* Lines 110-147: success line, caption when something was converted, preview,
\* summary, and the download buttons (Parquet only when pyarrow is there).
Render ==
    /\ pc = "render"
    /\ \E pyarrow \in BOOLEAN :
         ui' = ui
               \o <<UiCall("success", <<NRows(df_typed.columns[1].cells),
                                        Len(df_typed.columns)>>)>>
               \o (IF conversions # <<>>
                   THEN <<UiCall("caption", conversions)>> ELSE <<>>)
               \o <<UiCall("dataframe", <<>>), UiCall("summary", <<>>)>>
               \o (IF pyarrow
                   THEN <<UiCall("download_button", <<"data.parquet">>)>>
                   ELSE <<UiCall("info", <<"Install 'pyarrow'">>)>>)
               \o <<UiCall("download_button", <<"data_clean.csv">>)>>
    /\ pc' = "done"
    /\ UNCHANGED <<uploaded, readVars, inferVars, schemaVars>>

(***************************************************************************)
(* Schema Normalizer (spec.md 4.5).  A header is its sequence of           *)
(* characters.                                                             *)
(***************************************************************************)
HeaderNames ==
    {<<"O", "p", "e", "n", " ", "D", "a", "t", "e">>,
     <<"O", "p", "e", "n">>,
     <<"o", "p", "e", "n", "2">>,
     <<" ", "H", "I", "G", "H", " ">>,
     <<"L", "o", "w">>,
     <<"c", "l", "o", "s", "e">>,
     <<"V", "o", "l", "u", "m", "e">>}

UpperCase == <<"A", "C", "D", "E", "G", "H", "I", "L", "N", "O", "P", "S", "T", "U", "V", "W">>

LowerCase == <<"a", "c", "d", "e", "g", "h", "i", "l", "n", "o", "p", "s", "t", "u", "v", "w">>

LowerChar(c) ==
    IF \E i \in 1..Len(UpperCase) : UpperCase[i] = c
    THEN LowerCase[CHOOSE i \in 1..Len(UpperCase) : UpperCase[i] = c]
    ELSE c

Lower(h) == [i \in 1..Len(h) |-> LowerChar(h[i])]

RECURSIVE LStrip(_)
LStrip(h) == IF h # <<>> /\ Head(h) = " " THEN LStrip(Tail(h)) ELSE h

RECURSIVE RStrip(_)
RStrip(h) ==
    IF h # <<>> /\ h[Len(h)] = " " THEN RStrip(SubSeq(h, 1, Len(h) - 1)) ELSE h

Trim(h) == RStrip(LStrip(h))

Unmapped == "unmapped"

\* The predicates, in their fixed priority.
RolePredicates ==
    <<[test |-> "contains", word |-> <<"d", "a", "t", "e">>, role |-> "DateTime"],
      [test |-> "prefix", word |-> <<"o", "p", "e", "n">>, role |-> "Open"],
      [test |-> "prefix", word |-> <<"h", "i", "g", "h">>, role |-> "High"],
      [test |-> "prefix", word |-> <<"l", "o", "w">>, role |-> "Low"],
      [test |-> "prefix", word |-> <<"c", "l", "o", "s", "e">>, role |-> "Close"]>>

CanonicalRoles == {RolePredicates[i].role : i \in 1..Len(RolePredicates)}

Matches(p, h) ==
    IF p.test = "contains" THEN Contains(h, p.word) ELSE IsPrefixOf(p.word, h)

\* The role of the first predicate the lower-cased, trimmed header matches.
RoleOf(header) ==
    LET h == Trim(Lower(header))
        hits == {i \in 1..Len(RolePredicates) : Matches(RolePredicates[i], h)}
    IN  IF hits = {} THEN Unmapped
        ELSE RolePredicates[CHOOSE i \in hits : \A j \in hits : i <= j].role

\* Mutant of RoleTaken: collisions are not looked for.
RoleNeverTaken(map, role) == FALSE

\* An earlier header already holds the role.
RoleTaken(map, role) == \E j \in 1..Len(map) : map[j] = role

\* The next header, left to right, gets its role unless an earlier header
\* holds it.
NormalizeStep ==
    /\ pc = "schema"
    /\ hdr_i <= Len(headers)
    /\ LET role == RoleOf(headers[hdr_i])
       IN  role_map' = Append(role_map,
                              IF role # Unmapped /\ RoleTaken(role_map, role)
                              THEN Unmapped ELSE role)
    /\ hdr_i' = hdr_i + 1
    /\ UNCHANGED <<pc, uploaded, readVars, ui, inferVars, headers, chart_capable>>

\* The signal to the rendering collaborator: all five roles are mapped.
SchemaSignal ==
    /\ pc = "schema"
    /\ hdr_i > Len(headers)
    /\ chart_capable' =
         IF \A r \in CanonicalRoles : RoleTaken(role_map, r) THEN "yes" ELSE "no"
    /\ pc' = "schema_done"
    /\ UNCHANGED <<uploaded, readVars, ui, inferVars, headers, hdr_i, role_map>>

(***************************************************************************)
(* Specifications                                                          *)
(***************************************************************************)
NoFrame ==
    /\ enc_i = 0 /\ sep_i = 0 /\ last_err = None /\ attempts = <<>>
    /\ raised = None

NoInfer ==
    /\ out = None /\ conversions = <<>> /\ todo = <<>> /\ df_typed = None

NoSchema ==
    /\ headers = <<>> /\ hdr_i = 0 /\ role_map = <<>>
    /\ chart_capable = "pending"

\* A run of the script: a file was uploaded, or none.
Init ==
    /\ pc = "upload"
    /\ uploaded \in {NoUpload} \cup {UploadedFile(c) : c \in Contents}
    /\ df = None
    /\ ui = <<>>
    /\ NoFrame /\ NoInfer /\ NoSchema

Next ==
    \/ UploadNone
    \/ CallRead
    \/ DecodeStep
    \/ ParseAuto
    \/ ParseSep
    \/ RaiseFailure
    \/ HandleReadError
    \/ InferStart
    \/ DateStep
    \/ NumericStart
    \/ NumericStep
    \/ InferReturn
    \/ Render

Spec == Init /\ [][Next]_vars

\* infer_types on any DataFrame of the bounded family.
InferInit ==
    /\ pc = "returned"
    /\ uploaded = NoUpload
    /\ df \in Tables(MaxRuns)
    /\ ui = <<>>
    /\ NoFrame /\ NoInfer /\ NoSchema

InferNext ==
    \/ InferStart
    \/ DateStep
    \/ NumericStart
    \/ NumericStep
    \/ InferReturn

InferSpec == InferInit /\ [][InferNext]_vars

\* The Schema Normalizer on any header row of the bounded family.
SchemaInit ==
    /\ pc = "schema"
    /\ uploaded = NoUpload
    /\ df = None
    /\ ui = <<>>
    /\ NoFrame /\ NoInfer
    /\ headers \in SeqsUpTo(HeaderNames, MaxHeaders)
    /\ hdr_i = 1
    /\ role_map = <<>>
    /\ chart_capable = "pending"

SchemaNext ==
    \/ NormalizeStep
    \/ SchemaSignal

SchemaSpec == SchemaInit /\ [][SchemaNext]_vars

(***************************************************************************)
(* Properties of read_csv_robust and of the script                         *)
(***************************************************************************)
Last(s) == s[Len(s)]

PriorityEncodings == <<"utf-8", "utf-8-sig", "cp1252", "latin-1">>

PriorityModes == <<"None", ",", ";", "\t", "|">>

IndexIn(s, x) == CHOOSE i \in 1..Len(s) : s[i] = x

IsParse(a) == a.op = "read_csv"

IsDecode(a) == a.op = "decode"

\* The attempt a may directly follow the attempt p.
MayFollow(p, a) ==
    IF IsDecode(a)
    THEN /\ IndexIn(PriorityEncodings, a.enc) = IndexIn(PriorityEncodings, p.enc) + 1
         /\ ~p.ok
         /\ IsDecode(p) \/ p.sep = "|"
    ELSE /\ a.enc = p.enc
         /\ IF a.sep = "None"
            THEN IsDecode(p) /\ p.ok
            ELSE /\ IsParse(p) /\ ~p.ok
                 /\ IndexIn(PriorityModes, a.sep) = IndexIn(PriorityModes, p.sep) + 1

\* C1: the attempts are made in strict priority order: UTF-8, UTF-8-with-BOM,
\* Windows-1252, Latin-1; an encoding that fails to decode gets no parse
\* attempt; under a decoded encoding auto-detect comes first, then comma,
\* semicolon, tab, pipe, each only after the one before it failed; the next
\* encoding starts only after the pipe attempt failed; the first parse that
\* succeeds is the last attempt, and the function has then returned.
C1_PriorityOrder ==
    /\ \A i \in 1..Len(attempts) :
         /\ attempts[i].enc \in {PriorityEncodings[k] : k \in 1..4}
         /\ IsParse(attempts[i]) =>
              attempts[i].sep \in {PriorityModes[k] : k \in 1..5}
         /\ IF i = 1
            THEN IsDecode(attempts[i]) /\ attempts[i].enc = "utf-8"
            ELSE MayFollow(attempts[i - 1], attempts[i])
         /\ (IsParse(attempts[i]) /\ attempts[i].ok) => i = Len(attempts)
    /\ (attempts # <<>> /\ IsParse(Last(attempts)) /\ Last(attempts).ok)
         <=> pc = "returned"

\* C1's case: a decode failed, a whole encoding's five parses failed, a later
\* encoding was started and an explicit delimiter under it succeeded.
C1_Witness ==
    /\ pc = "returned"
    /\ \E i \in 1..Len(attempts) : IsDecode(attempts[i]) /\ ~attempts[i].ok
    /\ \E i \in 1..Len(attempts) :
         IsParse(attempts[i]) /\ attempts[i].sep = "|" /\ ~attempts[i].ok
    /\ Last(attempts).sep = ";"

ErrorOf(a) ==
    IF IsDecode(a) THEN UnicodeDecodeError(a.enc) ELSE ParserError(a.enc, a.sep)

\* The error of the last attempt of the log that failed; None if none did.
LastFailure(log) ==
    LET failed == {i \in 1..Len(log) : ~log[i].ok}
    IN  IF failed = {} THEN None
        ELSE ErrorOf(log[CHOOSE i \in failed : \A j \in failed : j <= i])

InReadCsvRobust == pc \in {"decode", "auto", "sep", "returned", "raised"}

\* C2: last_err is always the error of the latest failed attempt, decode or
\* parse; the terminal RuntimeError carries that error, and it is raised only
\* when no parse succeeded (and no table was produced).
C2_LastErrorCarried ==
    /\ InReadCsvRobust => last_err = LastFailure(attempts)
    /\ pc = "raised" =>
         /\ raised = [type |-> "RuntimeError",
                      msg |-> <<"Failed to parse CSV. Last error: ",
                                ErrorOf(Last(attempts))>>]
         /\ \A i \in 1..Len(attempts) : IsParse(attempts[i]) => ~attempts[i].ok
         /\ df = None
    /\ raised # None => pc \in {"raised", "stopped"}

\* C2's case: the run failed after decode errors and parse errors both; the
\* first error was a decode error, the one carried is the last parse error.
C2_Witness ==
    /\ pc = "raised"
    /\ ~attempts[1].ok
    /\ raised.msg[2] = ParserError("latin-1", "|")

Decodable(content, enc) == Decode(content, enc).type = "str"

\* C3: a run that fails has tried, and seen fail, every one of the five
\* modes under every encoding the buffer decodes under (so a buffer that is
\* parseable under any of them gets a table); a run that returns, returns a
\* DataFrame of at least one column; and a buffer no encoding decodes fails.
C3_ParseableReturnsTable ==
    /\ pc = "raised" =>
         \A e \in 1..4 : \A m \in 1..5 :
            Decodable(uploaded.value, PriorityEncodings[e]) =>
               \E i \in 1..Len(attempts) :
                  attempts[i] = [op |-> "read_csv", enc |-> PriorityEncodings[e],
                                 sep |-> PriorityModes[m], ok |-> FALSE]
    /\ pc = "returned" =>
         /\ df.type = "DataFrame" /\ Len(df.columns) >= 1
         /\ raised = None
    /\ (pc \in {"returned", "raised"}
        /\ \A e \in 1..4 : ~Decodable(uploaded.value, PriorityEncodings[e]))
         => pc = "raised"

\* C3's case: only the last mode of the last encoding parses, and the table
\* is returned.
C3_Witness ==
    /\ pc = "returned"
    /\ Last(attempts) = [op |-> "read_csv", enc |-> "latin-1", sep |-> "|", ok |-> TRUE]
    /\ Len(attempts) = 24

\* C4 as stated: every table returned is non-empty and has a column; a parse
\* that yields an empty table counts as a failed attempt.
C4_Original ==
    pc = "returned" =>
        /\ Len(df.columns) >= 1
        /\ NRows(df.columns[1].cells) > 0

\* C4, amended: the result of the first parser call that does not raise is
\* returned as it is: once a parser call has returned a DataFrame the function
\* has returned that DataFrame and made no further attempt, also when it has
\* no rows; it has at least one column.
C4_FirstResultReturned ==
    \A i \in 1..Len(attempts) :
        (IsParse(attempts[i]) /\ attempts[i].ok) =>
            /\ pc = "returned"
            /\ i = Len(attempts)
            /\ df.type = "DataFrame"
            /\ Len(df.columns) >= 1

\* C4's case: the parser gave a table of no rows and it was returned.
C4_Witness ==
    /\ pc = "returned"
    /\ NRows(df.columns[1].cells) = 0
    /\ Last(attempts).ok

ParseCount == Cardinality({i \in 1..Len(attempts) : IsParse(attempts[i])})

DecodeCount == Cardinality({i \in 1..Len(attempts) : IsDecode(attempts[i])})

C7_Bounded ==
    /\ DecodeCount <= 4
    /\ ParseCount <= 20
    /\ \A i, j \in 1..Len(attempts) :
         (i # j) =>
            <<attempts[i].op, attempts[i].enc, attempts[i].sep>>
               # <<attempts[j].op, attempts[j].enc, attempts[j].sep>>

InsideReadCsvRobust == pc \in {"decode", "auto", "sep"}

\* C7: read_csv_robust makes at most 4 decode attempts and 20 parse attempts,
\* none twice; while it runs it can always take a step, and each step either
\* makes one more attempt of that finite list or raises the terminal failure:
\* so every call ends, by returning or by raising, within 24 attempts.
C7_Terminates ==
    /\ [](C7_Bounded
          /\ (InsideReadCsvRobust =>
                 ENABLED (DecodeStep \/ ParseAuto \/ ParseSep \/ RaiseFailure)))
    /\ [][InsideReadCsvRobust =>
            \/ pc' = "raised" /\ attempts' = attempts
            \/ /\ Len(attempts') = Len(attempts) + 1
               /\ pc' \in {"decode", "auto", "sep", "returned"}]_vars

\* C7's case: all 4 decodes and all 20 parses were made and the run ended.
C7_Witness ==
    /\ pc = "raised"
    /\ DecodeCount = 4
    /\ ParseCount = 20

Spinner == [fn |-> "spinner", arg |-> <<"Reading CSV...">>]

\* C8: a failed ingestion shows exactly one error message, which holds the
\* last underlying error, and stops: no table, no type inference, no preview,
\* summary or export.  infer_types runs only on a table read_csv_robust
\* returned.
C8_FailureSurface ==
    /\ raised # None =>
         /\ df = None /\ out = None /\ df_typed = None /\ conversions = <<>>
         /\ pc \in {"raised", "stopped"}
         /\ pc = "raised" => ui = <<Spinner>>
         /\ pc = "stopped" =>
              ui = <<Spinner,
                     [fn |-> "error",
                      arg |-> <<"Could not read CSV: ",
                                <<"Failed to parse CSV. Last error: ",
                                  ErrorOf(Last(attempts))>>>>]>>
    /\ (pc \in {"date", "numeric", "render", "done"} \/ out # None) =>
         /\ df.type = "DataFrame"
         /\ raised = None
    /\ pc \in {"upload", "decode", "auto", "sep", "returned"} =>
         /\ \A i \in 1..Len(ui) : ui[i] = Spinner
         /\ out = None /\ df_typed = None

\* C8's case: ingestion failed and the script stopped after its one message.
C8_Witness ==
    /\ pc = "stopped"
    /\ raised # None
    /\ Cardinality({i \in 1..Len(ui) : ui[i].fn = "error"}) = 1

(***************************************************************************)
(* Properties of infer_types                                               *)
(***************************************************************************)
InSeq(q, x) == \E i \in 1..Len(q) : q[i] = x

HasNote(col, kind) == InSeq(conversions, <<ColName(col), " -> ", kind>>)

HasAnyNote(col) == \E i \in 1..Len(conversions) : conversions[i][1] = ColName(col)

NonMissing(cells) == SelectSeq(cells, LAMBDA r : r.v # "NaN")

\* More than half of the first up-to-500 non-missing cells have the date shape.
DateShapeOverHalf(cells) ==
    LET first == HeadRows(NonMissing(cells), 500)
    IN  NRows(first) > 0
        /\ 2 * CountIn(first, {"2024-01-15", "13/45/2024"}) > NRows(first)

DateRows(cells) == CountIn(cells, {"2024-01-15"})

NumberRows(cells) == CountIn(cells, {"1,234", "1,234.5"})

AsDates(cells) ==
    [i \in 1..Len(cells) |->
        [v |-> IF cells[i].v = "2024-01-15" THEN "Timestamp(2024-01-15)" ELSE "NaT",
         n |-> cells[i].n]]

\* The date pass has dealt with column c and the numeric pass has not begun.
DatePassDone(c) ==
    /\ pc = "date"
    /\ df.columns[c].dtype = "object"
    /\ ~InSeq(todo, c)

\* What the date pass did to column c, given whether it had to convert it.
DatePassEffect(c, convert) ==
    IF convert
    THEN /\ out.columns[c] = [dtype |-> "datetime64[ns]",
                              cells |-> AsDates(df.columns[c].cells)]
         /\ HasNote(c, "datetime")
    ELSE /\ out.columns[c] = df.columns[c]
         /\ ~HasAnyNote(c)

\* C5 as stated: a String column becomes DateTime exactly when more than half
\* of its first up-to-500 non-missing cells have the date shape and at least
\* 0.8 of its NON-MISSING cells parse as dates.
C5_Original ==
    \A c \in 1..Len(df.columns) :
        DatePassDone(c) =>
            LET cells == df.columns[c].cells
            IN  DatePassEffect(c,
                    /\ DateShapeOverHalf(cells)
                    /\ 10 * DateRows(cells) >= 8 * NRows(NonMissing(cells)))

\* C5, amended: a String column becomes DateTime exactly when more than half
\* (not exactly half) of its first up-to-500 non-missing cells have the date
\* shape and at least 0.8 of ALL its cells, the missing ones counted, parse as
\* dates; then the cells that do not parse become missing and the note
\* "<col> -> datetime" is recorded; otherwise the column keeps its strings and
\* gets no note.
C5_DateConversion ==
    \A c \in 1..Len(df.columns) :
        DatePassDone(c) =>
            LET cells == df.columns[c].cells
            IN  DatePassEffect(c,
                    /\ DateShapeOverHalf(cells)
                    /\ 10 * DateRows(cells) >= 8 * NRows(cells))

\* C5's case: a column with a missing cell sits exactly at 0.8 of all its
\* cells and is converted, its unparsed cell now NaT.
C5_Witness ==
    \E c \in 1..Len(df.columns) :
        /\ DatePassDone(c)
        /\ out.columns[c].dtype = "datetime64[ns]"
        /\ \E i \in 1..Len(df.columns[c].cells) : df.columns[c].cells[i].v = "NaN"
        /\ 10 * DateRows(df.columns[c].cells) = 8 * NRows(df.columns[c].cells)

\* Column c was still String when the numeric pass began, and infer_types
\* has returned.
NumericPassDone(c) ==
    /\ pc = "render"
    /\ df.columns[c].dtype = "object"
    /\ ~HasNote(c, "datetime")

AsIntegers(cells) ==
    [i \in 1..Len(cells) |->
        [v |-> IF cells[i].v = "1,234" THEN "1234" ELSE "<NA>", n |-> cells[i].n]]

AsFloats(cells) ==
    [i \in 1..Len(cells) |->
        [v |-> CASE cells[i].v = "1,234" -> "1234.0"
                 [] cells[i].v = "1,234.5" -> "1234.5"
                 [] OTHER -> "nan",
         n |-> cells[i].n]]

\* What the numeric pass did to column c, given whether enough of it parsed.
NumericPassEffect(c, enough) ==
    LET cells == df.columns[c].cells
        whole == CountIn(cells, {"1,234.5"}) = 0
    IN  IF enough /\ whole
        THEN /\ out.columns[c] = [dtype |-> "Int64", cells |-> AsIntegers(cells)]
             /\ HasNote(c, "integer") /\ ~HasNote(c, "float")
        ELSE IF enough
        THEN /\ out.columns[c] = [dtype |-> "float64", cells |-> AsFloats(cells)]
             /\ HasNote(c, "float") /\ ~HasNote(c, "integer")
        ELSE /\ out.columns[c] = df.columns[c]
             /\ ~HasAnyNote(c)

\* C6 as stated: the 0.8 fraction of the numeric pass is taken over the
\* NON-MISSING cells, so missing cells never lower it.
C6_Original ==
    \A c \in 1..Len(df.columns) :
        NumericPassDone(c) =>
            LET cells == df.columns[c].cells
            IN  NumericPassEffect(c,
                    /\ NRows(NonMissing(cells)) > 0
                    /\ 10 * NumberRows(cells) >= 8 * NRows(NonMissing(cells)))

\* C6, amended: a column still String after the date pass becomes Integer when
\* at least 0.8 of ALL its cells, the missing ones counted as not parsed, parse
\* as numbers and every parsed cell is whole (only the parsed cells are
\* looked at); Float when at least 0.8 of all its cells parse and some parsed
\* value has a fractional part; otherwise it stays String with no note.  A
\* column of no non-missing cells is never converted.
C6_NumericConversion ==
    \A c \in 1..Len(df.columns) :
        NumericPassDone(c) =>
            LET cells == df.columns[c].cells
            IN  /\ NumericPassEffect(c,
                      /\ NRows(cells) > 0
                      /\ 10 * NumberRows(cells) >= 8 * NRows(cells))
                /\ NRows(NonMissing(cells)) = 0 => out.columns[c] = df.columns[c]

\* C6's case: a column with a cell that is no number sits exactly at 0.8 and
\* becomes Integer, the integrality check looking at its parsed cells only.
C6_Witness ==
    \E c \in 1..Len(df.columns) :
        /\ NumericPassDone(c)
        /\ out.columns[c].dtype = "Int64"
        /\ \E i \in 1..Len(out.columns[c].cells) : out.columns[c].cells[i].v = "<NA>"
        /\ 10 * NumberRows(df.columns[c].cells) = 8 * NRows(df.columns[c].cells)

IsDateNote(n) == n[3] = "datetime"

\* C10: the date pass runs over all columns before the numeric pass; the
\* numeric pass takes only columns that are still String, each with its
\* original strings; a column made DateTime stays DateTime; only columns that
\* were String get a note, and at most one each; every "-> datetime" note
\* comes before every "-> integer" / "-> float" note.
C10_PassOrder ==
    /\ pc = "date" =>
         /\ \A i \in 1..Len(conversions) : IsDateNote(conversions[i])
         /\ \A c \in 1..Len(out.columns) :
               out.columns[c].dtype \in {df.columns[c].dtype, "datetime64[ns]"}
    /\ pc \in {"date", "numeric"} =>
         \A i \in 1..Len(todo) :
            /\ out.columns[todo[i]].dtype = "object"
            /\ out.columns[todo[i]] = df.columns[todo[i]]
    /\ \A i, j \in 1..Len(conversions) :
         /\ (i < j /\ IsDateNote(conversions[j])) => IsDateNote(conversions[i])
         /\ (i # j) => conversions[i][1] # conversions[j][1]
    /\ \A c \in 1..Len(df.columns) :
         /\ HasAnyNote(c) => df.columns[c].dtype = "object"
         /\ (pc \in {"date", "numeric", "render"} /\ HasNote(c, "datetime")) =>
               out.columns[c].dtype = "datetime64[ns]"

\* C10's case: the first column is numeric, the second holds dates, and the
\* second column's note comes first.
C10_Witness ==
    /\ pc = "render"
    /\ conversions = <<<<"b", " -> ", "datetime">>, <<"a", " -> ", "integer">>>>

(***************************************************************************)
(* Properties of the Schema Normalizer                                     *)
(***************************************************************************)
\* The role each header of the family asks for.
WantedRole(h) ==
    CASE h = <<"O", "p", "e", "n", " ", "D", "a", "t", "e">> -> "DateTime"
      [] h = <<"O", "p", "e", "n">> -> "Open"
      [] h = <<"o", "p", "e", "n", "2">> -> "Open"
      [] h = <<" ", "H", "I", "G", "H", " ">> -> "High"
      [] h = <<"L", "o", "w">> -> "Low"
      [] h = <<"c", "l", "o", "s", "e">> -> "Close"
      [] OTHER -> "unmapped"

FiveRoles == {"DateTime", "Open", "High", "Low", "Close"}

\* C9: scanning left to right, a header gets the role of the first predicate
\* it matches unless a header to its left asked for the same role, and then it
\* is left unmapped; so each header has at most one role and each role at most
\* one header; the chart-capable signal is given exactly when all five roles
\* are mapped.
C9_LeftmostWins ==
    /\ \A i \in 1..Len(role_map) :
         role_map[i] =
            IF \E j \in 1..(i - 1) : WantedRole(headers[j]) = WantedRole(headers[i])
            THEN "unmapped" ELSE WantedRole(headers[i])
    /\ \A i, j \in 1..Len(role_map) :
         (i # j /\ role_map[i] = role_map[j]) => role_map[i] = "unmapped"
    /\ chart_capable = "pending" <=> pc = "schema"
    /\ chart_capable = "yes" <=>
         (pc = "schema_done" /\ \A r \in FiveRoles : InSeq(role_map, r))

\* C9's case: the headers "Open", "open2"; only the first is mapped.
C9_Witness ==
    /\ pc = "schema_done"
    /\ headers = <<<<"O", "p", "e", "n">>, <<"o", "p", "e", "n", "2">>>>
    /\ role_map = <<"Open", "unmapped">>
    /\ chart_capable = "no"

====
